---- MODULE Spec2Model ----
(***************************************************************************)
(* A model of stl2vrml: the STL reader (binary and ASCII), the VRML        *)
(* writer, the conversion driver and wmain, over files of bytes.           *)
(*                                                                         *)
(* A byte is a string: a text character is the one-character string, CR    *)
(* and LF are "\r" and "\n", and the few non-text bytes the binary files   *)
(* need are named by their hexadecimal value ("x00", "x01", ...).  A file  *)
(* is a sequence of bytes; a std::string is a sequence of bytes too.       *)
(* A double is an integer number of twentieths (Scale), so 0.5 is 10: the  *)
(* coordinates of the files are tenths and their midpoints are exact.      *)
(***************************************************************************)
EXTENDS Integers, Sequences, FiniteSets, TLC

\* ------------------------------------------------------------------ bounds
\* Most facets of a generated input file.
MaxFacets == 2
\* Longest line handed to StringFields in SpecFields.
MaxLen == 4
\* SpecWriter feeds at most maxPointsPerFaceSet + MaxExtra points.
MaxExtra == 4
\* Only the first MaxFailAt writes of one writer call may be chosen to fail.
MaxFailAt == 60
\* For a buffer of maxPointsPerFaceSet points, only the first MaxLongFailAt.
MaxLongFailAt == 3

\* ------------------------------------------------------------- bytes, text
CR == "\r"
LF == "\n"
NUL == "x00"
SP == " "

Min(a, b) == IF a < b THEN a ELSE b
Max(a, b) == IF a > b THEN a ELSE b

\* isspace() of <ctype.h> in the C locale, on the bytes of the model.
IsSpace(c) == c \in {" ", "\t", "\n", "\r"}

\* The character at 1-based index i of the C string of s: the terminating
\* NUL from the end of s on.
At(s, i) == IF i <= Len(s) THEN s[i] ELSE NUL

\* str.c_str() read as a C string: s up to its first NUL byte.
CStr(s) ==
  LET nuls == {k \in 1..Len(s) : s[k] = NUL}
  IN  IF nuls = {} THEN s
      ELSE SubSeq(s, 1, (CHOOSE k \in nuls : \A m \in nuls : k <= m) - 1)

RECURSIVE SkipSpace(_, _)
\* while (isspace(*pstr)) ++pstr;
SkipSpace(s, i) == IF IsSpace(At(s, i)) THEN SkipSpace(s, i + 1) ELSE i

RECURSIVE FieldEnd(_, _)
\* while (*pstr && !isspace(*pstr) && *pstr != ',' && *pstr != ';') ...
FieldEnd(s, i) ==
  IF At(s, i) # NUL /\ ~IsSpace(At(s, i)) /\ At(s, i) # "," /\ At(s, i) # ";"
  THEN FieldEnd(s, i + 1)
  ELSE i

RECURSIVE FieldsFrom(_, _)
\* The loop of StringFields from index i of the C string s: one field is
\* pushed per iteration, empty or not.
FieldsFrom(s, i) ==
  IF At(s, i) = NUL THEN <<>>
  ELSE LET a == SkipSpace(s, i)
           b == IF At(s, a) \in {",", ";"} THEN a + 1 ELSE a
           c == SkipSpace(s, b)
           d == FieldEnd(s, c)
       IN  <<SubSeq(s, c, d - 1)>> \o FieldsFrom(s, d)

StringFields(str) == FieldsFrom(CStr(str), 1)

\* ------------------------------------------------------------------- File
\* File::Read: the bytes read and the position after them.
FileRead(bytes, pos, n) ==
  LET got == Max(0, Min(n, Len(bytes) - pos))
  IN  [data |-> SubSeq(bytes, pos + 1, pos + got), pos |-> pos + got]

\* The inner while loop of ReadLine: bytes are read up to and including the
\* next LF, or to the end of the file.
ReadRawLine(bytes, pos) ==
  LET lfs  == {k \in (pos + 1)..Len(bytes) : bytes[k] = LF}
      stop == IF lfs = {} THEN Len(bytes) + 1
              ELSE CHOOSE k \in lfs : \A m \in lfs : k <= m
      raw  == SubSeq(bytes, pos + 1, stop - 1)
  IN  [text    |-> SelectSeq(raw, LAMBDA c : c # CR),
       readAny |-> raw # <<>>,
       pos     |-> Min(stop, Len(bytes))]

RECURSIVE ReadLineLoop(_, _, _, _)
RECURSIVE ReadLineStep(_, _, _, _, _)
\* The do-while loop of ReadLine.  readAny is never reset.
ReadLineLoop(bytes, pos, skipBlankLines, readAny) ==
  ReadLineStep(bytes, pos, skipBlankLines, readAny, ReadRawLine(bytes, pos))

\* The loop condition after the iteration `one`.  When it holds after an
\* iteration that consumed nothing (the file is at its end), every later
\* iteration is the same: the call never returns (hangs).
ReadLineStep(bytes, pos, skipBlankLines, readAny, one) ==
  IF (skipBlankLines /\ one.text = <<>>) /\ (readAny \/ one.readAny)
  THEN IF one.pos = pos
       THEN [ok |-> FALSE, text |-> <<>>, pos |-> pos, hangs |-> TRUE]
       ELSE ReadLineLoop(bytes, one.pos, skipBlankLines, readAny \/ one.readAny)
  ELSE [ok |-> readAny \/ one.readAny, text |-> one.text, pos |-> one.pos,
        hangs |-> FALSE]

ReadLine(bytes, pos, skipBlankLines) == ReadLineLoop(bytes, pos, skipBlankLines, FALSE)

\* ------------------------------------------------------------ byte values
\* The printable ASCII characters 32..126 in order (the grave accent, 96,
\* by its name).
Printable ==
  <<" ", "!", "\"", "#", "$", "%", "&", "'", "(", ")", "*", "+", ",", "-", ".", "/",
    "0", "1", "2", "3", "4", "5", "6", "7", "8", "9", ":", ";", "<", "=", ">", "?",
    "@", "A", "B", "C", "D", "E", "F", "G", "H", "I", "J", "K", "L", "M", "N", "O",
    "P", "Q", "R", "S", "T", "U", "V", "W", "X", "Y", "Z", "[", "\\", "]", "^", "_",
    "x60", "a", "b", "c", "d", "e", "f", "g", "h", "i", "j", "k", "l", "m", "n", "o",
    "p", "q", "r", "s", "t", "u", "v", "w", "x", "y", "z", "{", "|", "}", "~">>

\* The value of a byte as an unsigned char.
ByteVal(b) ==
  CASE b = "x00" -> 0
    [] b = "x01" -> 1
    [] b = "x02" -> 2
    [] b = "x03" -> 3
    [] b = "x04" -> 4
    [] b = "\t"  -> 9
    [] b = "\n"  -> 10
    [] b = "\r"  -> 13
    [] b = "x3F" -> 63
    [] b = "x40" -> 64
    [] b = "x7F" -> 127
    [] b = "x80" -> 128
    [] b = "xC0" -> 192
    [] OTHER     -> 31 + (CHOOSE k \in 1..Len(Printable) : Printable[k] = b)

\* The byte of a small value (the inverse of ByteVal on 0..4).
SmallByte(n) == <<"x00", "x01", "x02", "x03", "x04">>[n + 1]

\* A little-endian std::uint32_t from its 4 bytes.
U32(b) == ByteVal(b[1]) + 256 * ByteVal(b[2]) + 65536 * ByteVal(b[3])
          + 16777216 * ByteVal(b[4])

\* --------------------------------------------------------------- doubles
\* A double is modelled by its number of twentieths.
Scale == 2 * 10

\* NaN, by a value apart from every number of the model.  Every ordered
\* comparison with a NaN is false.
NaN == 0 - (10 * 1000 * 1000)
IsNaN(v) == v = NaN
Less(a, b) == ~IsNaN(a) /\ ~IsNaN(b) /\ a < b

\* The largest double, far above every coordinate of the model.
DBL_MAX == 2000000

\* Minus infinity, below every number: what a result under -DBL_MAX
\* becomes.  (No result of the model exceeds DBL_MAX.)
NegInf == 0 - (20 * 1000 * 1000)
Rounded(v) == IF v < 0 - DBL_MAX THEN NegInf ELSE v
Sub(a, b) == Rounded(a - b)
Add(a, b) == IF a = NegInf \/ b = NegInf THEN NegInf ELSE Rounded(a + b)
Half(a) == IF a = NegInf THEN NegInf ELSE a \div 2

DigitChars == <<"0", "1", "2", "3", "4", "5", "6", "7", "8", "9">>
IsDigit(c) == \E k \in 1..10 : DigitChars[k] = c
DigitVal(c) == (CHOOSE k \in 1..10 : DigitChars[k] = c) - 1

RECURSIVE DigitsEnd(_, _)
DigitsEnd(s, i) == IF IsDigit(At(s, i)) THEN DigitsEnd(s, i + 1) ELSE i

RECURSIVE DecimalValue(_, _, _)
\* The value of the decimal digits s[i..j-1].
DecimalValue(s, i, j) ==
  IF j <= i THEN 0 ELSE 10 * DecimalValue(s, i, j - 1) + DigitVal(s[j - 1])

\* atof() on a token: an optional sign, digits, an optional point and
\* digits; the longest such prefix is converted and the rest ignored; no
\* digits at all gives 0.  (Exponents, "inf" and "nan" are outside the
\* tokens of the model; of the fraction the first digit counts.)
Atof(s) ==
  LET neg == At(s, 1) = "-"
      a   == IF At(s, 1) \in {"-", "+"} THEN 2 ELSE 1
      b   == DigitsEnd(s, a)
      c   == IF At(s, b) = "." THEN DigitsEnd(s, b + 1) ELSE b
      mag == Scale * DecimalValue(s, a, b)
             + (IF c > b + 1 THEN (Scale \div 10) * DigitVal(s[b + 1]) ELSE 0)
      any == b > a \/ c > b + 1
  IN  IF ~any THEN 0 ELSE IF neg THEN 0 - mag ELSE mag

\* A binary32 float from its 4 little-endian bytes, on the bit patterns of
\* the model's files: 0.0, 0.5, 1.0, 2.0, 3.0, 4.0 and a quiet NaN.
FloatOf(b) ==
  CASE b = <<"x00", "x00", "x00", "x00">> -> 0
    [] b = <<"x00", "x00", "x00", "x3F">> -> Scale \div 2
    [] b = <<"x00", "x00", "x80", "x3F">> -> Scale
    [] b = <<"x00", "x00", "x00", "x40">> -> 2 * Scale
    [] b = <<"x00", "x00", "x40", "x40">> -> 3 * Scale
    [] b = <<"x00", "x00", "x80", "x40">> -> 4 * Scale
    [] b = <<"x00", "x00", "xC0", "x7F">> -> NaN

\* The 4 bytes of a quiet NaN.
NaNBytes == <<"x00", "x00", "xC0", "x7F">>

\* The 4 bytes of the float n.0, n in 0..4.
FloatBytes(n) ==
  CASE n = 0 -> <<"x00", "x00", "x00", "x00">>
    [] n = 1 -> <<"x00", "x00", "x80", "x3F">>
    [] n = 2 -> <<"x00", "x00", "x00", "x40">>
    [] n = 3 -> <<"x00", "x00", "x40", "x40">>
    [] n = 4 -> <<"x00", "x00", "x80", "x40">>

\* --------------------------------------------------------------- keywords
kSolid     == <<"s", "o", "l", "i", "d">>
kEndsolid  == <<"e", "n", "d", "s", "o", "l", "i", "d">>
kEnd       == <<"e", "n", "d">>
kFacet     == <<"f", "a", "c", "e", "t">>
kOuterloop == <<"o", "u", "t", "e", "r", "l", "o", "o", "p">>
kOuter     == <<"o", "u", "t", "e", "r">>
kLoop      == <<"l", "o", "o", "p">>
kVertex    == <<"v", "e", "r", "t", "e", "x">>
kEndloop   == <<"e", "n", "d", "l", "o", "o", "p">>
kEndfacet  == <<"e", "n", "d", "f", "a", "c", "e", "t">>

\* ------------------------------------------------------------ input files
\* The input files of the model are generated: an ASCII or a binary STL of
\* up to MaxFacets facets, whole or damaged in one of a few ways.

\* Vertex i (1..3) of facet f, in whole units 0..4.  Facet 1 is the triangle
\* of the documentation's example.
VertexOf(f, i) ==
  IF f = 1
  THEN <<[x |-> 0, y |-> 0, z |-> 0], [x |-> 1, y |-> 0, z |-> 0],
         [x |-> 0, y |-> 1, z |-> 0]>>[i]
  ELSE [x |-> (f + i) % 3, y |-> (f * i + 1) % 5, z |-> (2 * f + i) % 5]

VertexLine(p) ==
  kVertex \o <<" ", DigitChars[p.x + 1], " ", DigitChars[p.y + 1], " ",
               DigitChars[p.z + 1]>>

\* The 7 lines of facet f; odd and even facets spell the two-word keywords
\* the two ways.
FacetLines(f) ==
  <<kFacet \o <<" ", "n">>,
    IF f % 2 = 1 THEN kOuter \o <<" ">> \o kLoop ELSE kOuterloop,
    VertexLine(VertexOf(f, 1)), VertexLine(VertexOf(f, 2)), VertexLine(VertexOf(f, 3)),
    IF f % 2 = 1 THEN kEndloop ELSE kEnd \o <<" ">> \o kLoop,
    IF f % 2 = 1 THEN kEndfacet ELSE kEnd \o <<" ">> \o kFacet>>

RECURSIVE AllFacetLines(_)
AllFacetLines(n) == IF n = 0 THEN <<>> ELSE AllFacetLines(n - 1) \o FacetLines(n)

AsciiLines(n) == <<kSolid \o <<" ", "m">>>> \o AllFacetLines(n) \o <<kEndsolid>>

\* Lines that are wrong wherever they stand.
BadLines ==
  <<<<"f", "o", "o">>,
    kVertex \o <<" ", "1", " ", "a", " ", "3">>,
    kVertex \o <<" ", "1", " ", "2">>>>

RECURSIVE Join(_, _)
\* The bytes of the lines, each ended by eol.
Join(lines, eol) ==
  IF lines = <<>> THEN <<>> ELSE Head(lines) \o eol \o Join(Tail(lines), eol)

InsertAt(seq, k, e) == SubSeq(seq, 1, k - 1) \o <<e>> \o SubSeq(seq, k, Len(seq))
ReplaceAt(seq, k, e) == [seq EXCEPT ![k] = e]

Eols == {<<LF>>, <<CR, LF>>}

\* An ASCII file: the first `cut` lines of an n-facet solid, with an empty
\* line before line `blank` (0: none) or line `bad` (0: none) replaced.
AsciiFile(n, eol, cut, blank, bad, which) ==
  LET l0 == SubSeq(AsciiLines(n), 1, cut)
      l1 == IF bad > 0 THEN ReplaceAt(l0, bad, BadLines[which]) ELSE l0
      l2 == IF blank > 0 THEN InsertAt(l1, blank, <<>>) ELSE l1
      whole == cut = 7 * n + 2 /\ bad = 0
  IN  [bytes  |-> Join(l2, eol),
       ascii  |-> TRUE,
       valid  |-> whole,
       facets |-> n,
       blank  |-> blank,
       cut    |-> cut]

AsciiFiles ==
  {AsciiFile(f[1], f[2], f[3], f[4], 0, 1) :
     f \in {g \in (0..MaxFacets) \X Eols \X (0..(7 * MaxFacets + 2))
                  \X (0..(7 * MaxFacets + 3)) :
              g[3] <= 7 * g[1] + 2 /\ g[4] <= g[3] + 1}}
  \cup
  {AsciiFile(f[1], f[2], 7 * f[1] + 2, 0, f[3], f[4]) :
     f \in {g \in (0..MaxFacets) \X Eols \X (1..(7 * MaxFacets + 2))
                  \X (1..Len(BadLines)) : g[3] <= 7 * g[1] + 2}}

\* The 50 bytes of the binary record of facet f: a normal, the 3 vertices
\* and the attribute field of value attr.  With nan the x of the first
\* vertex is a NaN.
RecordBytes(f, attr, nan) ==
  LET v(i) == (IF nan /\ i = 1 THEN NaNBytes ELSE FloatBytes(VertexOf(f, i).x))
              \o FloatBytes(VertexOf(f, i).y) \o FloatBytes(VertexOf(f, i).z)
  IN  FloatBytes(0) \o FloatBytes(0) \o FloatBytes(1)
      \o v(1) \o v(2) \o v(3) \o <<SmallByte(attr % 256), SmallByte(attr \div 256)>>

RECURSIVE AllRecords(_, _, _)
\* Records 1..n; record `marked` (0: none) has a nonzero attribute field
\* (1 in an odd record, 256 in an even one), record nanAt (0: none) a NaN.
AllRecords(n, marked, nanAt) ==
  IF n = 0 THEN <<>>
  ELSE AllRecords(n - 1, marked, nanAt)
       \o RecordBytes(n, IF n # marked THEN 0 ELSE IF n % 2 = 1 THEN 1 ELSE 256,
                      n = nanAt)

\* The 80-byte preamble: all NUL, or the text "solid" and spaces.
Preamble(text) ==
  [i \in 1..80 |-> IF ~text THEN NUL ELSE IF i <= 5 THEN kSolid[i] ELSE " "]

\* A binary file announcing `count` facets and holding `records` records.
BinaryFile(count, records, marked, text) ==
  [bytes  |-> Preamble(text) \o <<SmallByte(count), "x00", "x00", "x00">>
              \o AllRecords(records, marked, 0),
   ascii  |-> FALSE,
   valid  |-> count = records /\ count >= 1 /\ marked = 0,
   facets |-> records,
   blank  |-> 0,
   cut    |-> marked]

\* A well-formed binary file of n facets with a NaN in record nanAt.
NaNFile(n, nanAt) ==
  [bytes  |-> Preamble(FALSE) \o <<SmallByte(n), "x00", "x00", "x00">>
              \o AllRecords(n, 0, nanAt),
   ascii  |-> FALSE,
   valid  |-> TRUE,
   facets |-> n,
   blank  |-> 0,
   cut    |-> 0]

BinaryFiles ==
  {BinaryFile(f[1], f[2], f[3], f[4]) :
     f \in {g \in (0..MaxFacets) \X (0..MaxFacets) \X (0..MaxFacets) \X BOOLEAN :
              g[3] <= g[2]}}
  \cup
  \* Files too short to hold a facet count.
  {[bytes |-> SubSeq(Preamble(t), 1, n), ascii |-> FALSE, valid |-> FALSE,
    facets |-> 0, blank |-> 0, cut |-> 0] : t \in BOOLEAN, n \in {6, 80}}
  \cup
  {NaNFile(g[1], g[2]) : g \in {h \in (1..MaxFacets) \X (1..MaxFacets) : h[2] <= h[1]}}

InputFiles == AsciiFiles \cup BinaryFiles

\* ------------------------------------------------------------- StlReader
\* The results of the reader's operations: st is "ok" (returned, or
\* returned true), "false" (returned false), "throw" (a string was thrown)
\* or "hang" (a ReadLine call that never returns).
HeaderSize == 80
CountSize == 4
RecordSize == 50

\* ReadHeaderFromBinaryStl: Seek(80), read the count, require count >= 1.
BinaryHeaderFromCount(r) ==
  IF Len(r.data) # CountSize
  THEN [throws |-> TRUE, numFacets |-> 0, pos |-> r.pos]
  ELSE IF U32(r.data) < 1
  THEN [throws |-> TRUE, numFacets |-> 0, pos |-> r.pos]
  ELSE [throws |-> FALSE, numFacets |-> U32(r.data), pos |-> r.pos]

ReadHeaderFromBinaryStl(bytes) ==
  BinaryHeaderFromCount(FileRead(bytes, HeaderSize, CountSize))

\* IsBinaryStl.  expectedLength is a 64-bit size_t and cannot wrap for a
\* 32-bit count; a count above the file length is compared first, so that
\* the product stays within the model checker's integers.
LengthMatches(bytes, h) ==
  /\ ~h.throws
  /\ h.numFacets >= 1
  /\ h.numFacets <= Len(bytes)
  /\ Len(bytes) = HeaderSize + CountSize + h.numFacets * RecordSize

IsBinaryStl(bytes) == LengthMatches(bytes, ReadHeaderFromBinaryStl(bytes))

\* ReadHeaderFromAsciiStl on the line r and its fields f.
AsciiHeaderFromFields(r, f) ==
  IF r.hangs THEN [st |-> "hang", pos |-> r.pos]
  ELSE IF ~r.ok THEN [st |-> "throw", pos |-> r.pos]
  ELSE IF f = <<>> THEN [st |-> "throw", pos |-> r.pos]
  ELSE IF f[1] # kSolid THEN [st |-> "throw", pos |-> r.pos]
  ELSE [st |-> "ok", pos |-> r.pos]

AsciiHeaderFromLine(r) == AsciiHeaderFromFields(r, StringFields(r.text))

\* ReadHeaderFromAsciiStl: Seek(0), the first non-blank line, "solid".
ReadHeaderFromAsciiStl(bytes) == AsciiHeaderFromLine(ReadLine(bytes, 0, TRUE))

\* ReadHeaderFromStl.
HeaderFromBinary(h) ==
  [st |-> IF h.throws THEN "throw" ELSE "ok", isBinary |-> TRUE,
   numFacets |-> h.numFacets, pos |-> h.pos]

HeaderFromAscii(a) ==
  [st |-> a.st, isBinary |-> FALSE, numFacets |-> 0, pos |-> a.pos]

ReadHeaderFromStl(bytes) ==
  IF IsBinaryStl(bytes)
  THEN HeaderFromBinary(ReadHeaderFromBinaryStl(bytes))
  ELSE HeaderFromAscii(ReadHeaderFromAsciiStl(bytes))

Origin == [x |-> 0, y |-> 0, z |-> 0]

\* fields[k], 1-based; the empty string where there is no such field.
Field(f, k) == IF k <= Len(f) THEN f[k] ELSE <<>>

VertexResult(st, point, pos) == [st |-> st, point |-> point, pos |-> pos]
FacetResult(st, points, pos) == [st |-> st, coords |-> points, pos |-> pos]
LineResult(st, pos) == [st |-> st, pos |-> pos]

\* ReadVertexFromAsciiStl from the conversion to doubles on.  _isnan and
\* _finite hold of no value atof gives on the tokens of the model.
VertexFromPoint(r, f, p) ==
  IF \/ (p.x = 0 /\ At(f[2], 1) # "0")
     \/ (p.y = 0 /\ At(f[3], 1) # "0")
     \/ (p.z = 0 /\ At(f[4], 1) # "0")
  THEN VertexResult("throw", p, r.pos)
  ELSE VertexResult("ok", p, r.pos)

\* ReadVertexFromAsciiStl on the line r that ReadLine gave and its fields f.
VertexFromFields(r, f) ==
  IF r.hangs THEN VertexResult("hang", Origin, r.pos)
  ELSE IF ~r.ok THEN VertexResult("throw", Origin, r.pos)
  ELSE IF Len(f) < 4 THEN VertexResult("throw", Origin, r.pos)
  ELSE IF f[1] # kVertex THEN VertexResult("throw", Origin, r.pos)
  ELSE VertexFromPoint(r, f, [x |-> Atof(Field(f, 2)), y |-> Atof(Field(f, 3)),
                              z |-> Atof(Field(f, 4))])

VertexFromLine(r) == VertexFromFields(r, StringFields(r.text))

\* ReadVertexFromAsciiStl.
ReadVertexFromAsciiStl(bytes, pos) == VertexFromLine(ReadLine(bytes, pos, TRUE))

RECURSIVE ReadVertices(_, _, _)
RECURSIVE NextVertex(_, _, _)
\* The for loop of ReadFacetFromAsciiStl: the vertices still to read, after
\* those in points.
ReadVertices(bytes, pos, points) ==
  IF Len(points) = 3 THEN FacetResult("ok", points, pos)
  ELSE NextVertex(bytes, points, ReadVertexFromAsciiStl(bytes, pos))

NextVertex(bytes, points, v) ==
  IF v.st # "ok" THEN FacetResult(v.st, points, v.pos)
  ELSE ReadVertices(bytes, v.pos, Append(points, v.point))

\* A required line of one or two keywords ("endloop" / "end loop",
\* "endfacet" / "end facet"), on the line r and its fields f.
ClosingFromFields(r, f, one, second) ==
  IF r.hangs THEN LineResult("hang", r.pos)
  ELSE IF ~r.ok THEN LineResult("throw", r.pos)
  ELSE IF ~(\/ (Len(f) >= 1 /\ f[1] = one)
            \/ (Len(f) >= 2 /\ f[1] = kEnd /\ f[2] = second))
  THEN LineResult("throw", r.pos)
  ELSE LineResult("ok", r.pos)

ClosingFromLine(r, one, second) ==
  ClosingFromFields(r, StringFields(r.text), one, second)

ReadClosingLine(bytes, pos, one, second) ==
  ClosingFromLine(ReadLine(bytes, pos, TRUE), one, second)

\* The end of the "facet" branch: the endfacet line e, after the vertices v.
AfterEndfacet(v, e) == FacetResult(e.st, v.coords, e.pos)

\* The endloop line l, after the vertices v.
AfterEndloop(bytes, v, l) ==
  IF l.st # "ok" THEN FacetResult(l.st, v.coords, l.pos)
  ELSE AfterEndfacet(v, ReadClosingLine(bytes, l.pos, kEndfacet, kFacet))

AfterVertices(bytes, v) ==
  IF v.st # "ok" THEN v
  ELSE AfterEndloop(bytes, v, ReadClosingLine(bytes, v.pos, kEndloop, kLoop))

\* The "facet" branch after the outer loop line: vertices, endloop, endfacet.
ReadFacetBody(bytes, pos) == AfterVertices(bytes, ReadVertices(bytes, pos, <<>>))

\* The outer loop line o and its fields fo.
OuterLoopFromFields(bytes, o, fo) ==
  IF o.hangs THEN FacetResult("hang", <<>>, o.pos)
  ELSE IF ~o.ok THEN FacetResult("false", <<>>, o.pos)
  ELSE IF ~(\/ (Len(fo) > 0 /\ fo[1] = kOuterloop)
            \/ (Len(fo) > 1 /\ fo[1] = kOuter /\ fo[2] = kLoop))
  THEN FacetResult("throw", <<>>, o.pos)
  ELSE ReadFacetBody(bytes, o.pos)

OuterLoopFromLine(bytes, o) == OuterLoopFromFields(bytes, o, StringFields(o.text))

\* ReadFacetFromAsciiStl on its first line r and the fields f of that line.
FacetFromFields(bytes, r, f) ==
  IF r.hangs THEN FacetResult("hang", <<>>, r.pos)
  ELSE IF ~r.ok THEN FacetResult("false", <<>>, r.pos)
  ELSE IF f = <<>> THEN FacetResult("false", <<>>, r.pos)
  ELSE IF \/ f[1] = kEndsolid
          \/ (Len(f) > 1 /\ f[1] = kEnd /\ f[2] = kSolid)
  THEN FacetResult("false", <<>>, r.pos)
  ELSE IF f[1] = kFacet
  THEN OuterLoopFromLine(bytes, ReadLine(bytes, r.pos, TRUE))
  ELSE FacetResult("throw", <<>>, r.pos)

FacetFromLine(bytes, r) == FacetFromFields(bytes, r, StringFields(r.text))

\* ReadFacetFromAsciiStl.
ReadFacetFromAsciiStl(bytes, pos) == FacetFromLine(bytes, ReadLine(bytes, pos, TRUE))

\* The three points of m_coorddata: 9 floats from byte 13 of the record.
FloatAt(data, k) == FloatOf(SubSeq(data, 4 * k + 1, 4 * k + 4))

\* A reader that takes the points of the record from the last to the first.
RecordPointReversed(data, i) ==
  [x |-> FloatAt(data, 3 * (4 - i)), y |-> FloatAt(data, 3 * (4 - i) + 1),
   z |-> FloatAt(data, 3 * (4 - i) + 2)]

RecordPoint(data, i) ==
  [x |-> FloatAt(data, 3 * i), y |-> FloatAt(data, 3 * i + 1),
   z |-> FloatAt(data, 3 * i + 2)]

\* The mutant reads the second byte of the field alone.
AttributeSizeHigh(data) == 256 * ByteVal(data[RecordSize])

\* m_attributeSize: the little-endian std::uint16_t that ends the record.
AttributeSize(data) == ByteVal(data[RecordSize - 1]) + 256 * ByteVal(data[RecordSize])

\* A reader that copies two of the three points of the record.
FacetFromRecordShort(r, pos, curFacet, numFacets) ==
  IF curFacet >= numFacets
  THEN [st |-> "false", coords |-> <<>>, pos |-> pos, cur |-> curFacet]
  ELSE IF Len(r.data) # RecordSize
  THEN [st |-> "throw", coords |-> <<>>, pos |-> r.pos, cur |-> curFacet]
  ELSE IF AttributeSize(r.data) # 0
  THEN [st |-> "throw", coords |-> <<>>, pos |-> r.pos, cur |-> curFacet]
  ELSE [st |-> "ok",
        coords |-> <<RecordPoint(r.data, 1), RecordPoint(r.data, 2)>>,
        pos |-> r.pos, cur |-> curFacet + 1]

\* ReadFacetFromBinaryStl; cur is the m_curFacet it leaves.
FacetFromRecord(r, pos, curFacet, numFacets) ==
  IF curFacet >= numFacets
  THEN [st |-> "false", coords |-> <<>>, pos |-> pos, cur |-> curFacet]
  ELSE IF Len(r.data) # RecordSize
  THEN [st |-> "throw", coords |-> <<>>, pos |-> r.pos, cur |-> curFacet]
  ELSE IF AttributeSize(r.data) # 0
  THEN [st |-> "throw", coords |-> <<>>, pos |-> r.pos, cur |-> curFacet]
  ELSE [st |-> "ok",
        coords |-> <<RecordPoint(r.data, 1), RecordPoint(r.data, 2),
                     RecordPoint(r.data, 3)>>,
        pos |-> r.pos, cur |-> curFacet + 1]

ReadFacetFromBinaryStl(bytes, pos, curFacet, numFacets) ==
  FacetFromRecord(FileRead(bytes, pos, RecordSize), pos, curFacet, numFacets)

\* ReadFacetFromStl.
WithCounter(a, curFacet) ==
  [st |-> a.st, coords |-> a.coords, pos |-> a.pos, cur |-> curFacet]

ReadFacetFromStl(bytes, pos, isBinary, curFacet, numFacets) ==
  IF isBinary THEN ReadFacetFromBinaryStl(bytes, pos, curFacet, numFacets)
  ELSE WithCounter(ReadFacetFromAsciiStl(bytes, pos), curFacet)

\* ------------------------------------------------------------ VrmlWriter
\* A Printf call of the writer is [text, checked]: the text it formats, as
\* a sequence of pieces (literal text, CR, LF, the characters of a number),
\* and whether the caller tests its result and throws writeError.
Checked(text)   == [text |-> text, checked |-> TRUE]
Unchecked(text) == [text |-> text, checked |-> FALSE]

maxPointsPerFaceSet == 3000

RECURSIVE Digits(_)
\* "%zu": the decimal digits of n.
Digits(n) ==
  IF n < 10 THEN <<DigitChars[n + 1]>>
  ELSE Digits(n \div 10) \o <<DigitChars[(n % 10) + 1]>>

\* "%G" and "%.15G" of a double: on the values of the model (at most two
\* decimals, below the precision of either) the shortest decimal.
FormatG(v) ==
  LET a  == IF v < 0 THEN 0 - v ELSE v
      h  == ((a % Scale) * 100) \div Scale
      fr == IF h = 0 THEN <<>>
            ELSE IF h % 10 = 0 THEN <<".", DigitChars[(h \div 10) + 1]>>
            ELSE <<".", DigitChars[(h \div 10) + 1], DigitChars[(h % 10) + 1]>>
  IN  IF IsNaN(v) THEN <<"NAN">>
      ELSE IF v = NegInf THEN <<"-INF">>
      ELSE (IF v < 0 THEN <<"-">> ELSE <<>>) \o Digits(a \div Scale) \o fr

CoordIndent == <<"        ">>
IndexIndent == <<"      ">>

\* WriteStartOfWrl.
StartCalls ==
  <<Checked(<<"#VRML V2.0 utf8", CR, LF, "# Model converted by stl2vrml.", CR, LF>>)>>

\* WriteCoordListToWrl: per point the indent, the coordinates, ", " on all
\* but the last point, and the line end.
CoordListCalls(points) ==
  LET n == Len(points)
      call(j) ==
        LET i    == ((j - 1) \div 4) + 1
            slot == (j - 1) % 4
            p    == points[i]
        IN  IF slot = 0 THEN Checked(CoordIndent)
            ELSE IF slot = 1
            THEN Checked(FormatG(p.x) \o <<" ">> \o FormatG(p.y) \o <<" ">> \o FormatG(p.z))
            ELSE IF slot = 2 /\ i - 1 < n - 1 THEN Checked(<<", ">>)
            ELSE Checked(<<CR, LF>>)
  IN  [j \in 1..(4 * n - 1) |-> call(j)]

\* WriteCoordIndexesToWrl: per triangle the indent, three "%zu, ", the "-1"
\* whose result is not tested, "," on all but the last line, the line end.
CoordIndexCalls(numTriangles) ==
  LET call(j) ==
        LET t    == (j - 1) \div 7
            slot == (j - 1) % 7
        IN  IF slot = 0 THEN Checked(IndexIndent)
            ELSE IF slot \in 1..3 THEN Checked(Digits(t * 3 + (slot - 1)) \o <<", ">>)
            ELSE IF slot = 4 THEN Unchecked(<<"-1">>)
            ELSE IF slot = 5 /\ t < numTriangles - 1 THEN Checked(<<",">>)
            ELSE Checked(<<CR, LF>>)
  IN  [j \in 1..(7 * numTriangles - 1) |-> call(j)]

ShapeOpen ==
  Checked(<<CR, LF, "Shape {", CR, LF,
            "  appearance Appearance {", CR, LF,
            "    material Material {", CR, LF,
            "      diffuseColor 0.8 0.8 0.8", CR, LF,
            "    }", CR, LF,
            "  }", CR, LF,
            "  geometry IndexedFaceSet {", CR, LF,
            "    coord Coordinate {", CR, LF,
            "      point [", CR, LF>>)

ShapeMiddle ==
  Checked(<<"      ]", CR, LF, "    }", CR, LF, "    coordIndex [", CR, LF>>)

ShapeClose == Checked(<<"    ]", CR, LF, "  }", CR, LF, "}", CR, LF>>)

\* WriteFacetsToWrl, once its assertion has passed: nothing for fewer than
\* 3 points, else one Shape.
FacetsCalls(points) ==
  IF Len(points) \div 3 < 1 THEN <<>>
  ELSE <<ShapeOpen>> \o CoordListCalls(points) \o <<ShapeMiddle>>
       \o CoordIndexCalls(Len(points) \div 3) \o <<ShapeClose>>

\* The Viewpoint position of WriteEndOfWrl.
ViewPosition(emin, emax) ==
  [x |-> Add(emin.x, Half(Sub(emax.x, emin.x))),
   y |-> Add(emin.y, Half(Sub(emax.y, emin.y))),
   z |-> Add(Add(emin.z, Half(Sub(emax.z, emin.z))),
             Max(Sub(emax.x, emin.x), Sub(emax.y, emin.y)))]

\* The writes of WriteEndOfWrl after its flush.
EndCalls(emin, emax) ==
  LET v == ViewPosition(emin, emax)
  IN  <<Checked(<<CR, LF, "Viewpoint {", CR, LF,
                  "  description \"View_1\"", CR, LF,
                  "  orientation 1 0 0 0", CR, LF>>),
        Checked(<<"  position ">> \o FormatG(v.x) \o <<" ">> \o FormatG(v.y)
                \o <<" ">> \o FormatG(v.z) \o <<LF>>),
        Checked(<<"}", CR, LF>>),
        Checked(<<"Background { skyColor 0.4 0.4 0.4 }", CR, LF>>),
        Checked(<<"NavigationInfo { type [ \"EXAMINE\" \"ANY\" ] }", CR, LF, CR, LF>>)>>

\* How the writes of one writer call fail: write `at` fails (0: none does),
\* and with `rest` every write after it too.
NoFailure == [at |-> 0, rest |-> FALSE]
Fails(failing, i) ==
  failing.at > 0 /\ (i = failing.at \/ (failing.rest /\ i > failing.at))

Failures(n) ==
  {NoFailure} \cup [at : 1..Min(n, MaxFailAt), rest : BOOLEAN]

RECURSIVE FirstChecked(_, _)
\* The first write from i on whose result is tested; 0 if there is none.
FirstChecked(writes, i) ==
  IF i > Len(writes) THEN 0
  ELSE IF writes[i].checked THEN i
  ELSE FirstChecked(writes, i + 1)

\* The write at which writeError is thrown: the first failing write whose
\* result is tested; 0 if there is none.
ThrowAt(writes, failing) ==
  IF failing.at = 0 \/ failing.at > Len(writes) THEN 0
  ELSE IF writes[failing.at].checked THEN failing.at
  ELSE IF failing.rest THEN FirstChecked(writes, failing.at + 1)
  ELSE 0

WritesUpTo(writes, failing, stop) ==
  [log    |-> [i \in 1..(IF stop = 0 THEN Len(writes) ELSE stop) |->
                 [text |-> writes[i].text, ok |-> ~Fails(failing, i)]],
   thrown |-> stop # 0]

\* The writes a writer call performs: all of `writes` up to the one where
\* writeError is thrown.  Each is logged with whether it succeeded.
RunWrites(writes, failing) == WritesUpTo(writes, failing, ThrowAt(writes, failing))

FlushResult(tri, r) ==
  [st |-> IF r.thrown THEN "throw" ELSE "ok",
   triangles |-> IF r.thrown THEN tri ELSE <<>>,
   log |-> r.log, flushed |-> <<Len(tri)>>]

\* WriteFacetsToWrl(m_triangles); m_triangles.clear(); -- the assertion of
\* WriteFacetsToWrl aborts on a size that is no multiple of 3.
FlushTriangles(tri, failing) ==
  IF Len(tri) % 3 # 0
  THEN [st |-> "abort", triangles |-> tri, log |-> <<>>, flushed |-> <<>>]
  ELSE FlushResult(tri, RunWrites(FacetsCalls(tri), failing))

\* The mutant flushes only when the buffer has grown past the threshold.
AppendedLate(tri, failing) ==
  IF Len(tri) > maxPointsPerFaceSet
  THEN FlushTriangles(tri, failing)
  ELSE [st |-> "ok", triangles |-> tri, log |-> <<>>, flushed |-> <<>>]

\* WriteFacetToWrl once the points are appended: from maxPointsPerFaceSet
\* points on the buffer is written as one Shape and cleared.  flushed lists
\* the size of the Shape begun.
Appended(tri, failing) ==
  IF Len(tri) >= maxPointsPerFaceSet
  THEN FlushTriangles(tri, failing)
  ELSE [st |-> "ok", triangles |-> tri, log |-> <<>>, flushed |-> <<>>]

\* WriteFacetToWrl on the buffer `triangles`.
WriteFacetToWrl(triangles, pts, failing) == Appended(triangles \o pts, failing)

\* The writes of WriteEndOfWrl: the Shape of a non-empty buffer, then the
\* Viewpoint, Background and NavigationInfo.
EndOfWrlCallsNoRest(triangles, emin, emax) == EndCalls(emin, emax)

EndOfWrlCalls(triangles, emin, emax) ==
  (IF triangles # <<>> THEN FacetsCalls(triangles) ELSE <<>>) \o EndCalls(emin, emax)

\* WriteEndOfWrl on the buffer `triangles`, which it does not clear.
EndResult(triangles, r) ==
  [st |-> IF r.thrown THEN "throw" ELSE "ok",
   log |-> r.log,
   flushed |-> IF Len(triangles) >= 3 THEN <<Len(triangles)>> ELSE <<>>]

WriteEndOfWrl(triangles, emin, emax, failing) ==
  IF Len(triangles) % 3 # 0
  THEN [st |-> "abort", log |-> <<>>, flushed |-> <<>>]
  ELSE EndResult(triangles, RunWrites(EndOfWrlCalls(triangles, emin, emax), failing))

\* ----------------------------------------------------------------- driver
\* UpdateMinMax.
UpdateMinMax(input, box) ==
  [emin |-> [x |-> IF Less(input.x, box.emin.x) THEN input.x ELSE box.emin.x,
             y |-> IF Less(input.y, box.emin.y) THEN input.y ELSE box.emin.y,
             z |-> IF Less(input.z, box.emin.z) THEN input.z ELSE box.emin.z],
   emax |-> [x |-> IF Less(box.emax.x, input.x) THEN input.x ELSE box.emax.x,
             y |-> IF Less(box.emax.y, input.y) THEN input.y ELSE box.emax.y,
             z |-> IF Less(box.emax.z, input.z) THEN input.z ELSE box.emax.z]]

\* The mutant takes only the first point of each facet into the bounds.
UpdateAllFirstOnly(points, box) ==
  IF points = <<>> THEN box ELSE UpdateMinMax(Head(points), box)

RECURSIVE UpdateAll(_, _)
\* for (const auto &point : coords) UpdateMinMax(point, emin, emax);
UpdateAll(points, box) ==
  IF points = <<>> THEN box
  ELSE UpdateAll(Tail(points), UpdateMinMax(Head(points), box))

VARIABLES
  pc,                  \* where wmain / ConvertStlToWrl stands
  argc,                \* wmain's argc
  input,               \* the input file: its bytes, and how it was generated
  inOpen, outOpen,     \* inFile / outFile hold an open stream
  inPos,               \* the read position of the input stream
  inCloses, outCloses, \* fclose calls made on the input / output stream
  m_isBinaryStl, m_numFacets, m_curFacet,   \* StlReader
  coords,              \* the vector ReadFacetFromStl fills
  m_triangles,         \* VrmlWriter's pending points
  wlog,                \* every write issued to the output, with its success
  shapes,              \* the number of points of each Shape begun
  fed,                 \* the points given to WriteFacetToWrl so far
  emin, emax,          \* the bounds ConvertStlToWrl accumulates
  numFacetsProcessed,
  calls,               \* the reader / writer calls ConvertStlToWrl has made
  err,                 \* what was thrown: "none", "format" or "write"
  ret,                 \* the value of wmain's return statement
  exitCode,            \* how the process ended
  str, fields          \* the argument and the result of StringFields

vars ==
  <<pc, argc, input, inOpen, outOpen, inPos, inCloses, outCloses, m_isBinaryStl,
    m_numFacets, m_curFacet, coords, m_triangles, wlog, shapes, fed, emin, emax,
    numFacetsProcessed, calls, err, ret, exitCode, str, fields>>

readerVars == <<m_isBinaryStl, m_numFacets, m_curFacet, coords, inPos>>
writerVars == <<m_triangles, wlog, shapes, fed>>
boundVars  == <<emin, emax, numFacetsProcessed>>
handleVars == <<inOpen, outOpen, inCloses, outCloses>>
fieldVars  == <<str, fields>>

InitCommon ==
  /\ argc = 0
  /\ inPos = 0 /\ inCloses = 0 /\ outCloses = 0
  /\ m_isBinaryStl = FALSE /\ m_numFacets = 0 /\ m_curFacet = 0
  /\ coords = <<>>
  /\ m_triangles = <<>> /\ wlog = <<>> /\ shapes = <<>> /\ fed = 0
  /\ emin = [x |-> DBL_MAX, y |-> DBL_MAX, z |-> DBL_MAX]
  /\ emax = [x |-> 0 - DBL_MAX, y |-> 0 - DBL_MAX, z |-> 0 - DBL_MAX]
  /\ numFacetsProcessed = 0
  /\ calls = <<>>
  /\ err = "none" /\ ret = "none" /\ exitCode = "running"
  /\ fields = <<>>

Init ==
  /\ pc = "main"
  /\ input \in InputFiles
  /\ str = <<>>
  /\ inOpen = FALSE /\ outOpen = FALSE
  /\ InitCommon

\* wmain up to the argument count test.
Main ==
  /\ pc = "main"
  /\ \E a \in {2, 3} :
       /\ argc' = a
       /\ IF a # 3 THEN pc' = "return" /\ ret' = "EXIT_FAILURE"
                   ELSE pc' = "open_in" /\ ret' = ret
  /\ UNCHANGED <<input, handleVars, readerVars, writerVars, boundVars, calls, err,
                 exitCode, fieldVars>>

\* inFile.Open: the file may not be there.
OpenInput ==
  /\ pc = "open_in"
  /\ \E ok \in BOOLEAN :
       /\ inOpen' = ok
       /\ IF ok THEN pc' = "create_out" /\ ret' = ret
                ELSE pc' = "return" /\ ret' = "EXIT_FAILURE"
  /\ UNCHANGED <<argc, input, outOpen, inCloses, outCloses, readerVars, writerVars,
                 boundVars, calls, err, exitCode, fieldVars>>

\* outFile.Create.
CreateOutput ==
  /\ pc = "create_out"
  /\ \E ok \in BOOLEAN :
       /\ outOpen' = ok
       /\ IF ok THEN pc' = "header" /\ ret' = ret
                ELSE pc' = "return" /\ ret' = "EXIT_FAILURE"
  /\ UNCHANGED <<argc, input, inOpen, inCloses, outCloses, readerVars, writerVars,
                 boundVars, calls, err, exitCode, fieldVars>>

\* StlReader reader(inFile); reader.ReadHeaderFromStl();
\* A conversion that starts the writer before it reads the header.
ReadHeaderAfterStart ==
  /\ pc = "header"
  /\ LET h == ReadHeaderFromStl(input.bytes)
     IN  /\ m_isBinaryStl' = h.isBinary
         /\ m_numFacets' = h.numFacets
         /\ m_curFacet' = 0
         /\ inPos' = h.pos
         /\ pc' = CASE h.st = "ok"    -> "start"
                    [] h.st = "throw" -> "unwind"
                    [] h.st = "hang"  -> "hang"
         /\ err' = IF h.st = "throw" THEN "format" ELSE err
         /\ wlog' = IF h.st = "throw" THEN RunWrites(StartCalls, NoFailure).log
                    ELSE wlog
  /\ calls' = Append(calls, "ReadHeaderFromStl")
  /\ UNCHANGED <<argc, input, handleVars, coords, m_triangles, shapes, fed,
                 boundVars, ret, exitCode, fieldVars>>

ReadHeader ==
  /\ pc = "header"
  /\ LET h == ReadHeaderFromStl(input.bytes)
     IN  /\ m_isBinaryStl' = h.isBinary
         /\ m_numFacets' = h.numFacets
         /\ m_curFacet' = 0
         /\ inPos' = h.pos
         /\ pc' = CASE h.st = "ok"    -> "start"
                    [] h.st = "throw" -> "unwind"
                    [] h.st = "hang"  -> "hang"
         /\ err' = IF h.st = "throw" THEN "format" ELSE err
  /\ calls' = Append(calls, "ReadHeaderFromStl")
  /\ UNCHANGED <<argc, input, handleVars, coords, writerVars, boundVars, ret,
                 exitCode, fieldVars>>

\* VrmlWriter writer(outFile); writer.WriteStartOfWrl();
WriteStart ==
  /\ pc = "start"
  /\ \E failing \in Failures(Len(StartCalls)) :
       LET r == RunWrites(StartCalls, failing)
       IN  /\ wlog' = wlog \o r.log
           /\ pc' = IF r.thrown THEN "unwind" ELSE "read"
           /\ err' = IF r.thrown THEN "write" ELSE err
  /\ calls' = Append(calls, "WriteStartOfWrl")
  /\ UNCHANGED <<argc, input, handleVars, readerVars, m_triangles, shapes, fed,
                 boundVars, ret, exitCode, fieldVars>>

\* while (reader.ReadFacetFromStl(coords))
ReadFacet ==
  /\ pc = "read"
  /\ LET r == ReadFacetFromStl(input.bytes, inPos, m_isBinaryStl, m_curFacet,
                               m_numFacets)
     IN  /\ coords' = r.coords
         /\ inPos' = r.pos
         /\ m_curFacet' = r.cur
         /\ pc' = CASE r.st = "ok"    -> "feed"
                    [] r.st = "false" -> "close"
                    [] r.st = "throw" -> "unwind"
                    [] r.st = "hang"  -> "hang"
         /\ err' = IF r.st = "throw" THEN "format" ELSE err
  /\ calls' = Append(calls, "ReadFacetFromStl")
  /\ UNCHANGED <<argc, input, handleVars, m_isBinaryStl, m_numFacets, writerVars,
                 boundVars, ret, exitCode, fieldVars>>

\* writer.WriteFacetToWrl(coords);
WriteFacet ==
  /\ pc = "feed"
  /\ \E failing \in Failures(IF Len(m_triangles \o coords) >= maxPointsPerFaceSet
                             THEN Len(FacetsCalls(m_triangles \o coords)) ELSE 0) :
       LET w == WriteFacetToWrl(m_triangles, coords, failing)
       IN  /\ m_triangles' = w.triangles
           /\ wlog' = wlog \o w.log
           /\ shapes' = shapes \o w.flushed
           /\ pc' = CASE w.st = "ok"    -> "bounds"
                      [] w.st = "throw" -> "unwind"
                      [] w.st = "abort" -> "aborted"
           /\ err' = IF w.st = "throw" THEN "write" ELSE err
  /\ fed' = fed + Len(coords)
  /\ calls' = Append(calls, "WriteFacetToWrl")
  /\ UNCHANGED <<argc, input, handleVars, readerVars, boundVars, ret, exitCode,
                 fieldVars>>

\* The rest of the loop body: the bounds and the progress counter.
UpdateBounds ==
  /\ pc = "bounds"
  /\ LET b == UpdateAll(coords, [emin |-> emin, emax |-> emax])
     IN  emin' = b.emin /\ emax' = b.emax
  /\ numFacetsProcessed' = numFacetsProcessed + 1
  /\ pc' = "read"
  /\ UNCHANGED <<argc, input, handleVars, readerVars, writerVars, calls, err, ret,
                 exitCode, fieldVars>>

\* reader.Close(): fclose on the stream the reader's File copy shares with
\* inFile; no pointer is reset.
CloseReader ==
  /\ pc = "close"
  /\ inCloses' = inCloses + 1
  /\ pc' = "end"
  /\ calls' = Append(calls, "Close")
  /\ UNCHANGED <<argc, input, inOpen, outOpen, outCloses, readerVars, writerVars,
                 boundVars, err, ret, exitCode, fieldVars>>

\* writer.WriteEndOfWrl(emin, emax);
WriteEnd ==
  /\ pc = "end"
  /\ \E failing \in Failures(Len(EndOfWrlCalls(m_triangles, emin, emax))) :
       LET w == WriteEndOfWrl(m_triangles, emin, emax, failing)
       IN  /\ wlog' = wlog \o w.log
           /\ shapes' = shapes \o w.flushed
           /\ pc' = CASE w.st = "ok"    -> "finish"
                      [] w.st = "throw" -> "unwind"
                      [] w.st = "abort" -> "aborted"
           /\ err' = IF w.st = "throw" THEN "write" ELSE err
  /\ calls' = Append(calls, "WriteEndOfWrl")
  /\ UNCHANGED <<argc, input, handleVars, readerVars, m_triangles, fed, boundVars,
                 ret, exitCode, fieldVars>>

\* ConvertStlToWrl returns: the reader and its File copy are destroyed
\* (fclose on the shared stream again), wmain reaches return EXIT_SUCCESS.
ConvertReturns ==
  /\ pc = "finish"
  /\ inCloses' = inCloses + 1
  /\ ret' = "EXIT_SUCCESS"
  /\ pc' = "return"
  /\ UNCHANGED <<argc, input, inOpen, outOpen, outCloses, readerVars, writerVars,
                 boundVars, calls, err, exitCode, fieldVars>>

\* A thrown string leaves ConvertStlToWrl: the reader is destroyed on the
\* way, a catch clause of wmain returns EXIT_FAILURE.
Unwind ==
  /\ pc = "unwind"
  /\ inCloses' = inCloses + 1
  /\ ret' = "EXIT_FAILURE"
  /\ pc' = "return"
  /\ UNCHANGED <<argc, input, inOpen, outOpen, outCloses, readerVars, writerVars,
                 boundVars, calls, err, exitCode, fieldVars>>

\* A return of wmain that destroys inFile alone.
ReturnLeaks ==
  /\ pc = "return"
  /\ outCloses' = outCloses
  /\ inCloses' = inCloses + (IF inOpen THEN 1 ELSE 0)
  /\ exitCode' \in (IF inCloses' > 1 \/ outCloses' > 1 THEN {ret, "crash"} ELSE {ret})
  /\ pc' = "exited"
  /\ UNCHANGED <<argc, input, inOpen, outOpen, readerVars, writerVars, boundVars,
                 calls, err, ret, fieldVars>>

\* wmain returns: outFile and inFile are destroyed.  A stream closed more
\* than once is undefined behaviour: the process ends as wmain returned, or
\* it crashes.
Return ==
  /\ pc = "return"
  /\ outCloses' = outCloses + (IF outOpen THEN 1 ELSE 0)
  /\ inCloses' = inCloses + (IF inOpen THEN 1 ELSE 0)
  /\ exitCode' \in (IF inCloses' > 1 \/ outCloses' > 1 THEN {ret, "crash"} ELSE {ret})
  /\ pc' = "exited"
  /\ UNCHANGED <<argc, input, inOpen, outOpen, readerVars, writerVars, boundVars,
                 calls, err, ret, fieldVars>>

Next ==
  \/ Main
  \/ OpenInput
  \/ CreateOutput
  \/ ReadHeader
  \/ WriteStart
  \/ ReadFacet
  \/ WriteFacet
  \/ UpdateBounds
  \/ CloseReader
  \/ WriteEnd
  \/ ConvertReturns
  \/ Unwind
  \/ Return

Spec == Init /\ [][Next]_vars

\* ------------------------------------------------- the writer on its own
\* VrmlWriter driven through its public interface by any caller: a start,
\* vectors of points, an end.  The caller passes 1 to 3 points at a time, or
\* one long vector that stops short of the threshold; it ends the stream
\* early or near the threshold.
FeedSizes == {1, 2, 3, maxPointsPerFaceSet - MaxExtra}

\* The writes of a long Shape that may fail: the write MaxFailAt or an
\* earlier one for a short buffer, one of the first MaxLongFailAt for a
\* long one.
FailuresFor(points) ==
  Failures(IF Len(points) <= MaxExtra THEN MaxFailAt ELSE MaxLongFailAt)

NoInput ==
  [bytes |-> <<>>, ascii |-> TRUE, valid |-> FALSE, facets |-> 0, blank |-> 0,
   cut |-> 0]

\* Point k of the stream the caller feeds.
StreamPoint(k) ==
  [x |-> (k % 3) * Scale, y |-> (k % 5) * Scale, z |-> (k % 7) * Scale]

InitWriter ==
  /\ pc = "w_start"
  /\ input = NoInput
  /\ str = <<>>
  /\ inOpen = TRUE /\ outOpen = TRUE
  /\ InitCommon

W_Start ==
  /\ pc = "w_start"
  /\ \E failing \in Failures(Len(StartCalls)) :
       LET r == RunWrites(StartCalls, failing)
       IN  /\ wlog' = wlog \o r.log
           /\ pc' = IF r.thrown THEN "w_thrown" ELSE "w_feed"
           /\ err' = IF r.thrown THEN "write" ELSE err
  /\ UNCHANGED <<argc, input, handleVars, readerVars, m_triangles, shapes, fed,
                 boundVars, calls, ret, exitCode, fieldVars>>

\* A caller that hands WriteFacetToWrl point lists of any size; its calls
\* are not mixed with the facets of the loop of ConvertStlToWrl.
W_Feed ==
  /\ pc = "w_feed"
  /\ numFacetsProcessed = 0
  /\ \E n \in FeedSizes :
       /\ fed + n <= maxPointsPerFaceSet + MaxExtra
       /\ \E failing \in (IF Len(m_triangles) + n >= maxPointsPerFaceSet
                          THEN Failures(MaxLongFailAt) ELSE {NoFailure}) :
            LET pts == [i \in 1..n |-> StreamPoint(fed + i)]
                w   == WriteFacetToWrl(m_triangles, pts, failing)
            IN  /\ m_triangles' = w.triangles
                /\ wlog' = wlog \o w.log
                /\ shapes' = shapes \o w.flushed
                /\ pc' = CASE w.st = "ok"    -> "w_feed"
                           [] w.st = "throw" -> "w_thrown"
                           [] w.st = "abort" -> "w_aborted"
                /\ err' = IF w.st = "throw" THEN "write" ELSE err
       /\ fed' = fed + n
  /\ UNCHANGED <<argc, input, handleVars, readerVars, boundVars, calls, ret,
                 exitCode, fieldVars>>

\* The facets a run of the loop of ConvertStlToWrl hands over in one step:
\* one, or all but two of a full Shape.
FacetRuns == {1, (maxPointsPerFaceSet \div 3) - 2}

\* A run of t iterations of the loop of ConvertStlToWrl: each feeds the 3
\* points of one facet and counts it.  A run of several facets is taken
\* only where none before its last reaches the threshold.
W_Facets ==
  /\ pc = "w_feed"
  /\ fed = 3 * numFacetsProcessed
  /\ \E t \in FacetRuns :
       /\ fed + 3 * t <= maxPointsPerFaceSet + MaxExtra
       /\ t > 1 => Len(m_triangles) + 3 * t <= maxPointsPerFaceSet
       /\ \E failing \in (IF Len(m_triangles) + 3 * t >= maxPointsPerFaceSet
                          THEN Failures(MaxLongFailAt) ELSE {NoFailure}) :
            LET pts == [i \in 1..(3 * t) |-> StreamPoint(fed + i)]
                w   == WriteFacetToWrl(m_triangles, pts, failing)
            IN  /\ m_triangles' = w.triangles
                /\ wlog' = wlog \o w.log
                /\ shapes' = shapes \o w.flushed
                /\ pc' = CASE w.st = "ok"    -> "w_feed"
                           [] w.st = "throw" -> "w_thrown"
                           [] w.st = "abort" -> "w_aborted"
                /\ err' = IF w.st = "throw" THEN "write" ELSE err
       /\ fed' = fed + 3 * t
       /\ numFacetsProcessed' = numFacetsProcessed + t
  /\ UNCHANGED <<argc, input, handleVars, readerVars, emin, emax, calls, ret,
                 exitCode, fieldVars>>

W_End ==
  /\ pc = "w_feed"
  /\ fed <= MaxExtra \/ fed >= maxPointsPerFaceSet - MaxExtra
  /\ \E failing \in FailuresFor(m_triangles) :
       LET w == WriteEndOfWrl(m_triangles, emin, emax, failing)
       IN  /\ wlog' = wlog \o w.log
           /\ shapes' = shapes \o w.flushed
           /\ pc' = CASE w.st = "ok"    -> "w_done"
                      [] w.st = "throw" -> "w_thrown"
                      [] w.st = "abort" -> "w_aborted"
           /\ err' = IF w.st = "throw" THEN "write" ELSE err
  /\ UNCHANGED <<argc, input, handleVars, readerVars, m_triangles, fed, boundVars,
                 calls, ret, exitCode, fieldVars>>

\* A read error that leaves the pending triangles to be written first.
W_ReadErrorFlushes ==
  /\ pc = "w_feed"
  /\ wlog' = wlog \o FlushTriangles(m_triangles, NoFailure).log
  /\ pc' = "unwind"
  /\ err' = "format"
  /\ UNCHANGED <<argc, input, handleVars, readerVars, m_triangles, shapes, fed,
                 boundVars, calls, ret, exitCode, fieldVars>>

\* reader.ReadFacetFromStl(coords) throws its format error in the loop of
\* ConvertStlToWrl: the loop and the function are left.
W_ReadError ==
  /\ pc = "w_feed"
  /\ wlog' = wlog
  /\ pc' = "unwind"
  /\ err' = "format"
  /\ UNCHANGED <<argc, input, handleVars, readerVars, m_triangles, shapes, fed,
                 boundVars, calls, ret, exitCode, fieldVars>>

NextWriter ==
  \/ W_Start
  \/ W_Feed
  \/ W_Facets
  \/ W_End
  \/ W_ReadError
  \/ Unwind
  \/ Return

SpecWriter == InitWriter /\ [][NextWriter]_vars

\* ------------------------------------------------ StringFields on its own
FieldAlphabet == {"a", " ", ",", ";"}

\* The lines of up to MaxLen characters, and the examples of the
\* documentation.
FieldInputs ==
  UNION {[1..n -> FieldAlphabet] : n \in 0..MaxLen}
  \cup {<<"1", ".", "0", ",", " ", "2", ".", "0", ";", "3", ".", "0">>,
        <<" ", " ", "a", " ", " ", "b">>}

InitFields ==
  /\ pc = "f_call"
  /\ input = NoInput
  /\ str \in FieldInputs
  /\ inOpen = FALSE /\ outOpen = FALSE
  /\ InitCommon

CallStringFields ==
  /\ pc = "f_call"
  /\ fields' = StringFields(str)
  /\ pc' = "f_done"
  /\ UNCHANGED <<argc, input, handleVars, readerVars, writerVars, boundVars, calls,
                 err, ret, exitCode, str>>

NextFields == CallStringFields

SpecFields == InitFields /\ [][NextFields]_vars

\* --------------------------------------- ReadVertexFromAsciiStl on its own
\* The lines given to ReadVertexFromAsciiStl: "vertex" or "Vertex" and up
\* to 3 tokens, numbers and others, and "vertex 1 0 1" with a fourth token.
VertexTokens ==
  {<<"1">>, <<"0">>, <<"a">>, <<"2", "a">>, <<"0", "a">>, <<"-", "0">>,
   <<"0", ".", "5">>, <<"-", "1">>}

RECURSIVE SpacedTokens(_)
SpacedTokens(ts) ==
  IF ts = <<>> THEN <<>> ELSE <<" ">> \o Head(ts) \o SpacedTokens(Tail(ts))

VertexInputs ==
  {w \o SpacedTokens(ts) :
     w \in {kVertex, <<"V", "e", "r", "t", "e", "x">>},
     ts \in UNION {[1..n -> VertexTokens] : n \in 0..3}}
  \cup {kVertex \o SpacedTokens(<<<<"1">>, <<"0">>, <<"1">>, t>>) : t \in VertexTokens}

\* The lines given to ReadFacetFromAsciiStl after a "facet" line: the words
\* "outer" and "loop" with the letters at `upper` in capitals, joined by sep,
\* and lines that are no outer-loop line.
CasedOuterLoop(upper, sep) ==
  LET small == kOuter \o kLoop
      big   == <<"O", "U", "T", "E", "R", "L", "O", "O", "P">>
      word  == [i \in 1..9 |-> IF i \in upper THEN big[i] ELSE small[i]]
  IN  SubSeq(word, 1, 5) \o sep \o SubSeq(word, 6, 9)

OuterLoopInputs ==
  {CasedOuterLoop(u, sep) : u \in SUBSET (1..9), sep \in {<<>>, <<" ">>, <<" ", " ">>}}
  \cup {CasedOuterLoop({}, sep) \o <<" ", "x">> : sep \in {<<>>, <<" ">>}}
  \cup {kOuter, kLoop, kLoop \o <<" ">> \o kOuter, kOuter \o <<" ", "x", " ">> \o kLoop,
        kEndloop, <<"f", "o", "o">>, kVertex \o <<" ", "1", " ", "1", " ", "1">>}

InitVertex ==
  /\ \/ pc = "v_call" /\ str \in VertexInputs
     \/ pc = "o_call" /\ str \in OuterLoopInputs
  /\ input = NoInput
  /\ inOpen = FALSE /\ outOpen = FALSE
  /\ InitCommon

\* ReadVertexFromAsciiStl(point) with the file at the start of the line str.
CallReadVertex ==
  /\ pc = "v_call"
  /\ LET v == ReadVertexFromAsciiStl(str \o <<LF>>, 0)
     IN  /\ coords' = IF v.st = "ok" THEN <<v.point>> ELSE <<>>
         /\ inPos' = v.pos
         /\ err' = IF v.st = "throw" THEN "format" ELSE err
         /\ pc' = CASE v.st = "ok"    -> "v_done"
                    [] v.st = "throw" -> "v_thrown"
                    [] v.st = "hang"  -> "hang"
  /\ UNCHANGED <<argc, input, handleVars, m_isBinaryStl, m_numFacets, m_curFacet,
                 writerVars, boundVars, calls, ret, exitCode, fieldVars>>

\* ReadFacetFromAsciiStl(coords) on a facet whose second line is str.
CallReadFacet ==
  /\ pc = "o_call"
  /\ LET lines == <<kFacet \o <<" ", "n">>, str,
                    VertexLine(VertexOf(1, 1)), VertexLine(VertexOf(1, 2)),
                    VertexLine(VertexOf(1, 3)), kEndloop, kEndfacet>>
         r     == ReadFacetFromAsciiStl(Join(lines, <<LF>>), 0)
     IN  /\ coords' = r.coords
         /\ inPos' = r.pos
         /\ err' = IF r.st = "throw" THEN "format" ELSE err
         /\ pc' = CASE r.st = "ok"    -> "o_done"
                    [] r.st = "false" -> "o_false"
                    [] r.st = "throw" -> "o_thrown"
                    [] r.st = "hang"  -> "hang"
  /\ UNCHANGED <<argc, input, handleVars, m_isBinaryStl, m_numFacets, m_curFacet,
                 writerVars, boundVars, calls, ret, exitCode, fieldVars>>

NextOnVertex ==
  \/ CallReadVertex
  \/ CallReadFacet

SpecVertex == InitVertex /\ [][NextOnVertex]_vars

\* ------------------------------------------------------------ the claims
AllWritesOk == \A i \in 1..Len(wlog) : wlog[i].ok

\* The coordIndex lines begun in the output.
IndexLines == Cardinality({i \in 1..Len(wlog) : wlog[i].text = IndexIndent})

\* The points of facets 1..n of a generated input, as the reader delivers them.
ExpectedPoints(n) ==
  [k \in 1..(3 * n) |->
     LET v == VertexOf(((k - 1) \div 3) + 1, ((k - 1) % 3) + 1)
     IN  [x |-> v.x * Scale, y |-> v.y * Scale, z |-> v.z * Scale]]

\* C1: converting a valid STL input of N facets (N >= 0) to completion
\* writes exactly N coordIndex lines, one per facet.
C1_OneIndexLinePerFacet ==
  (pc = "finish" /\ input.valid) => IndexLines = input.facets

\* A non-blank line remains in the file from offset pos on.
NonBlankRemains(bytes, pos) ==
  \E i \in (pos + 1)..Len(bytes) : bytes[i] \notin {CR, LF}

ReturnsFalse(line) == ~line.ok /\ ~line.hangs

\* C2: empty lines anywhere in ASCII input are skipped: a whole solid with
\* an empty line inserted gives the header and the triangles of the solid
\* without it, and ReadLine with skipBlankLines returns false only when no
\* non-blank line remains in the file.
C2_BlankLinesSkipped ==
  /\ (input.ascii /\ input.valid) =>
       /\ err # "format"
       /\ pc = "close" => m_triangles = ExpectedPoints(input.facets)
  /\ (input.ascii /\ inOpen /\ ReturnsFalse(ReadLine(input.bytes, inPos, TRUE))) =>
       ~NonBlankRemains(input.bytes, inPos)

\* C3: every conversion terminates: every call of ReadLine returns, also
\* when all that is left of the input is CR and LF bytes followed by the end
\* of the file; no call is left looping without reading anything.
C3_EveryReadLineReturns == pc # "hang"

\* C4: a failed write to the output aborts the conversion at that write:
\* no later write is attempted and ConvertStlToWrl does not return normally.
\* This includes the '-1' that ends each coordIndex line.
C4_FailedWriteAborts ==
  \A i \in 1..Len(wlog) :
    ~wlog[i].ok =>
      /\ i = Len(wlog)
      /\ pc \notin {"read", "feed", "bounds", "close", "end", "finish"}
      /\ ret # "EXIT_SUCCESS"

\* The conversion was clean: three arguments, both files opened, no format
\* error raised and every write succeeded.
Clean == argc = 3 /\ inOpen /\ outOpen /\ err = "none" /\ AllWritesOk

\* C5: wmain returns 0 (EXIT_SUCCESS) exactly when the conversion was clean,
\* and a nonzero value otherwise.
C5_ExitCode ==
  (pc = "exited" /\ exitCode # "crash") => (exitCode = "EXIT_SUCCESS" <=> Clean)

\* The input is an ASCII solid that stops inside a facet: after the line
\* 'facet' and before the line 'endfacet' of the same facet.
CutInsideFacet ==
  /\ input.ascii /\ input.blank = 0
  /\ input.cut >= 2 /\ input.cut < 7 * input.facets + 2
  /\ (input.cut - 1) % 7 # 0

\* C6: in ASCII mode the end of the file on any required line after 'facet'
\* raises a format error; it is never reported as the clean end of the
\* triangle stream.
C6_TruncatedFacetIsError ==
  (CutInsideFacet /\ ~m_isBinaryStl) => pc # "close"

\* The facet count a file announces in bytes 80..83, little-endian.
AnnouncedCount(bytes) == U32(SubSeq(bytes, 81, 84))

\* The file holds a count of at least 1 and is 84 + 50 * count bytes long
\* (stated by division: the product would leave the range of the model checker's
\* integers).
HoldsBinaryStl(bytes) ==
  /\ Len(bytes) >= 84
  /\ AnnouncedCount(bytes) >= 1
  /\ (Len(bytes) - 84) % 50 = 0
  /\ (Len(bytes) - 84) \div 50 = AnnouncedCount(bytes)

\* The first token of the file is 'solid'.
StartsWithSolid(bytes) ==
  \E i \in 0..Len(bytes) :
    /\ \A j \in 1..i : IsSpace(bytes[j])
    /\ i + 5 <= Len(bytes) /\ SubSeq(bytes, i + 1, i + 5) = kSolid
    /\ i + 5 < Len(bytes) => IsSpace(bytes[i + 6])

\* C7: ReadHeaderFromStl selects binary mode exactly when the facet count
\* can be read, is at least 1 and the file is 84 + 50 * count bytes long;
\* in every other case it selects ASCII mode, and then the first token of
\* the file is 'solid' or a format error is raised.
C7_ModeSelection ==
  Len(calls) >= 1 =>
    /\ m_isBinaryStl <=> HoldsBinaryStl(input.bytes)
    /\ ~m_isBinaryStl => (StartsWithSolid(input.bytes) \/ err = "format")

\* C8: feeding WriteFacetToWrl until exactly 3000 points have been fed begins
\* exactly one Shape, of 3000 points, and leaves no point pending; with 3001
\* points fed there is that one Shape of 3000 points and 1 point pending.
C8_FlushAtThreshold ==
  pc = "w_feed" =>
    /\ fed = 3000 => (shapes = <<3000>> /\ m_triangles = <<>>)
    /\ fed = 3001 => (shapes = <<3000>> /\ Len(m_triangles) = 1)

C8_Witness ==
  pc = "w_feed" /\ fed = 3001 /\ shapes = <<3000>> /\ Len(m_triangles) = 1

\* The calls that may follow one another in ConvertStlToWrl.
AllowedSuccession ==
  {<<"ReadHeaderFromStl", "WriteStartOfWrl">>,
   <<"WriteStartOfWrl", "ReadFacetFromStl">>,
   <<"ReadFacetFromStl", "WriteFacetToWrl">>,
   <<"WriteFacetToWrl", "ReadFacetFromStl">>,
   <<"ReadFacetFromStl", "Close">>,
   <<"Close", "WriteEndOfWrl">>}

CallCount(name) == Cardinality({i \in 1..Len(calls) : calls[i] = name})

\* The bounding box of a non-empty sequence of points: of those of their
\* coordinates that are numbers.
BoxOf(points) ==
  LET xs == {points[i].x : i \in 1..Len(points)} \ {NaN}
      ys == {points[i].y : i \in 1..Len(points)} \ {NaN}
      zs == {points[i].z : i \in 1..Len(points)} \ {NaN}
      least(S) == CHOOSE m \in S : \A e \in S : m <= e
      most(S)  == CHOOSE m \in S : \A e \in S : m >= e
  IN  [emin |-> [x |-> least(xs), y |-> least(ys), z |-> least(zs)],
       emax |-> [x |-> most(xs), y |-> most(ys), z |-> most(zs)]]

\* C9: ConvertStlToWrl drives the writer in the order start, feeds, end:
\* WriteStartOfWrl once and before any WriteFacetToWrl; when the triangle
\* stream has ended without error the reader is closed and then WriteEndOfWrl
\* is called once, with the bounding box of all triangles fed; no writer
\* call follows WriteEndOfWrl.
C9_WriterCallOrder ==
  /\ calls # <<>> => calls[1] = "ReadHeaderFromStl"
  /\ \A i \in 2..Len(calls) : <<calls[i - 1], calls[i]>> \in AllowedSuccession
  /\ CallCount("WriteStartOfWrl") <= 1 /\ CallCount("WriteEndOfWrl") <= 1
  /\ CallCount("WriteFacetToWrl") > 0 => CallCount("WriteStartOfWrl") = 1
  /\ pc = "end" =>
       /\ calls[Len(calls)] = "Close" /\ inCloses >= 1
       /\ CallCount("WriteFacetToWrl") = numFacetsProcessed
       /\ fed > 0 => [emin |-> emin, emax |-> emax] = BoxOf(m_triangles)
       /\ Len(m_triangles) = fed
  /\ pc = "finish" =>
       /\ calls[Len(calls)] = "WriteEndOfWrl"
       /\ CallCount("WriteEndOfWrl") = 1

C9_Witness ==
  /\ pc = "finish" /\ numFacetsProcessed = 2
  /\ emin # emax
  /\ calls[Len(calls)] = "WriteEndOfWrl"

\* The characters that separate fields: whitespace, comma and semicolon.
IsSeparator(c) == c \in {" ", "\t", "\n", "\r", ",", ";"}

\* The maximal runs of non-separator characters of s, from left to right.
MaximalRuns(s) ==
  LET starts == {i \in 1..Len(s) :
                   ~IsSeparator(s[i]) /\ (i = 1 \/ IsSeparator(s[i - 1]))}
      endOf(i) == CHOOSE j \in i..Len(s) :
                    /\ \A k \in i..j : ~IsSeparator(s[k])
                    /\ j = Len(s) \/ IsSeparator(s[j + 1])
      order == CHOOSE f \in [1..Cardinality(starts) -> starts] :
                 \A a, b \in 1..Cardinality(starts) : a < b => f[a] < f[b]
  IN  [n \in 1..Cardinality(starts) |-> SubSeq(s, order[n], endOf(order[n]))]

\* C10: StringFields returns exactly the maximal runs of non-separator
\* characters of its argument, in order; every token is non-empty, whatever
\* separators lead, trail or repeat.
C10_MaximalRuns ==
  pc = "f_done" => fields = MaximalRuns(str)

\* The points the conversion loop has passed through UpdateMinMax: those of
\* the facets processed (no Shape is flushed before the end in Spec).
Processed == SubSeq(m_triangles, 1, Min(Len(m_triangles), 3 * numFacetsProcessed))

\* a <= b on doubles.
LessEq(a, b) == ~IsNaN(a) /\ ~IsNaN(b) /\ a <= b

Axes == {"x", "y", "z"}
Coord(p, a) == CASE a = "x" -> p.x [] a = "y" -> p.y [] a = "z" -> p.z

\* Every processed coordinate lies within the bounds, and each bound is the
\* coordinate of a processed point.
BoxContainsAndTight ==
  \A a \in Axes :
    /\ \A i \in 1..Len(Processed) :
         /\ LessEq(Coord(emin, a), Coord(Processed[i], a))
         /\ LessEq(Coord(Processed[i], a), Coord(emax, a))
    /\ \E i \in 1..Len(Processed) : Coord(emin, a) = Coord(Processed[i], a)
    /\ \E i \in 1..Len(Processed) : Coord(emax, a) = Coord(Processed[i], a)

\* A step never raises emin and never lowers emax.
BoxOnlyGrows ==
  \A a \in Axes : Coord(emin', a) <= Coord(emin, a) /\ Coord(emax', a) >= Coord(emax, a)

\* C11: after the driver has processed N >= 1 points through UpdateMinMax,
\* every processed coordinate lies between emin and emax on its axis, each
\* of emin and emax is the coordinate of some processed point, and no step
\* raises emin or lowers emax.
C11_BoundingBox ==
  /\ [](numFacetsProcessed >= 1 => BoxContainsAndTight)
  /\ [][BoxOnlyGrows]_vars

\* The records a file of the binary layout holds after its 84-byte header.
RecordsHeld(bytes) == IF Len(bytes) < 84 THEN 0 ELSE (Len(bytes) - 84) \div 50

\* Record k of the file has a nonzero byte in its trailing attribute field.
AttributeNonzero(bytes, k) ==
  bytes[84 + 50 * k - 1] # "x00" \/ bytes[84 + 50 * k] # "x00"

\* The first record with a nonzero attribute field; 0 if there is none.
FirstMarked(bytes) ==
  IF \E k \in 1..RecordsHeld(bytes) : AttributeNonzero(bytes, k)
  THEN CHOOSE k \in 1..RecordsHeld(bytes) :
         /\ AttributeNonzero(bytes, k)
         /\ \A j \in 1..(k - 1) : ~AttributeNonzero(bytes, j)
  ELSE 0

\* C12: in binary mode a record whose trailing 16-bit attribute field is
\* nonzero makes ReadFacetFromStl raise a format error at that record,
\* whatever the facet count and the geometry: its triangle is not returned
\* to the driver, is not fed to the writer, and the stream never ends
\* cleanly.
C12_NonzeroAttributeIsError ==
  (m_isBinaryStl /\ FirstMarked(input.bytes) > 0) =>
    /\ CallCount("ReadFacetFromStl") <= FirstMarked(input.bytes)
    /\ CallCount("WriteFacetToWrl") < FirstMarked(input.bytes)
    /\ fed <= 3 * (FirstMarked(input.bytes) - 1)
    /\ pc \notin {"close", "end", "finish"} /\ ret # "EXIT_SUCCESS"
    /\ CallCount("ReadFacetFromStl") = FirstMarked(input.bytes) =>
         (err = "format" /\ coords = <<>>)

C12_Witness ==
  /\ m_isBinaryStl /\ FirstMarked(input.bytes) = 2
  /\ CallCount("ReadFacetFromStl") = 2 /\ err = "format"
  /\ fed = 3 /\ pc = "unwind"

\* The input holds a NaN (its bytes end in 7F).
InputHasNaN == \E i \in 1..Len(input.bytes) : input.bytes[i] = "x7F"

\* The input is a whole solid of at least one facet, all coordinates numbers.
WholeSolid == input.valid /\ input.facets >= 1 /\ ~InputHasNaN

\* The view of a non-empty sequence of vertices: the midpoint of the least
\* and the greatest x, of y, and of z, the latter moved by the greater of the
\* x and y extents.
ViewOf(points) ==
  LET b == BoxOf(points)
  IN  [x |-> (b.emin.x + b.emax.x) \div 2,
       y |-> (b.emin.y + b.emax.y) \div 2,
       z |-> (b.emin.z + b.emax.z) \div 2
             + Max(b.emax.x - b.emin.x, b.emax.y - b.emin.y)]

PositionText(v) ==
  <<"  position ">> \o FormatG(v.x) \o <<" ">> \o FormatG(v.y) \o <<" ">>
  \o FormatG(v.z)

RECURSIVE WithoutLineEnd(_)
WithoutLineEnd(text) ==
  IF text # <<>> /\ text[Len(text)] \in {CR, LF}
  THEN WithoutLineEnd(SubSeq(text, 1, Len(text) - 1))
  ELSE text

IsPrefix(p, t) == Len(p) <= Len(t) /\ SubSeq(t, 1, Len(p)) = p

\* C13: the Viewpoint position written by WriteEndOfWrl has x, y the
\* midpoints of the least and greatest x, y of all input vertices and z the
\* midpoint of z plus max(xmax - xmin, ymax - ymin); for the one-facet model
\* (0,0,0), (1,0,0), (0,1,0) it starts 0.5 0.5.
C13_ViewpointPosition ==
  WholeSolid =>
    \A i \in 1..Len(wlog) :
      wlog[i].text[1] = "  position " =>
        /\ WithoutLineEnd(wlog[i].text)
             = PositionText(ViewOf(ExpectedPoints(input.facets)))
        /\ input.facets = 1 =>
             IsPrefix(<<"  position ", "0", ".", "5", " ", "0", ".", "5", " ">>,
                      wlog[i].text)

\* The bytes of the output file: the texts of the writes that succeeded.
RECURSIVE WrittenUpTo(_)
WrittenUpTo(n) ==
  IF n = 0 THEN <<>>
  ELSE WrittenUpTo(n - 1) \o (IF wlog[n].ok THEN wlog[n].text ELSE <<>>)

OutputText == WrittenUpTo(Len(wlog))

\* C14: every line of the output ends CR LF: each LF written follows a CR,
\* the line of the Viewpoint's position included.
C14_LinesEndCRLF ==
  \A k \in 1..Len(OutputText) :
    OutputText[k] = LF => k > 1 /\ OutputText[k - 1] = CR

\* wmain has returned to its caller.
Returned == pc = "exited" /\ exitCode # "crash"

\* C15: on every path on which wmain returns after opening a handle (clean
\* conversion, failure to create the output, format error, write error),
\* each of the input and output handles that was opened has been closed.
C15_HandlesClosedAtReturn ==
  Returned =>
    /\ inOpen => inCloses >= 1
    /\ outOpen => outCloses >= 1

C15_Witness ==
  /\ Returned /\ inOpen /\ outOpen
  /\ err = "format" /\ numFacetsProcessed >= 1
  /\ exitCode = "EXIT_FAILURE"

\* The first non-blank line of the file, without its CRs: the bytes from the
\* first one that is no CR or LF up to the next LF or the end.  <<>> when the
\* file has no non-blank line.
FirstNonBlankLine(bytes) ==
  LET starts == {i \in 1..Len(bytes) : bytes[i] \notin {CR, LF}}
  IN  IF starts = {} THEN <<>>
      ELSE LET from == CHOOSE i \in starts : \A j \in starts : i <= j
               ends == {i \in from..Len(bytes) : bytes[i] = LF}
               to   == IF ends = {} THEN Len(bytes)
                       ELSE (CHOOSE i \in ends : \A j \in ends : i <= j) - 1
           IN  SelectSeq(SubSeq(bytes, from, to), LAMBDA c : c # CR)

\* The first token of a line: its first maximal run of non-separators.
FirstToken(line) ==
  LET tokens == {i \in 1..Len(line) : ~IsSeparator(line[i])}
  IN  IF tokens = {} THEN <<>>
      ELSE LET from == CHOOSE i \in tokens : \A j \in tokens : i <= j
               seps == {i \in from..Len(line) : IsSeparator(line[i])}
               to   == IF seps = {} THEN Len(line)
                       ELSE (CHOOSE i \in seps : \A j \in seps : i <= j) - 1
           IN  SubSeq(line, from, to)

\* ReadHeaderFromStl has just run and chose ASCII mode.
AsciiHeaderRead ==
  /\ calls = <<"ReadHeaderFromStl">> /\ ~m_isBinaryStl
  /\ pc \in {"start", "unwind", "hang"}

\* C16: in ASCII mode ReadHeaderFromStl succeeds if and only if the first
\* token of the first non-blank line of the file is exactly "solid"; leading
\* blank lines are skipped; otherwise, also when the file has no non-blank
\* line, it raises a format error.
C16_AsciiHeader ==
  AsciiHeaderRead =>
    IF FirstToken(FirstNonBlankLine(input.bytes)) = kSolid
    THEN pc = "start" /\ err = "none"
    ELSE pc = "unwind" /\ err = "format"

\* The log of calls that all succeed.
LogOf(cs) == [i \in 1..Len(cs) |-> [text |-> cs[i].text, ok |-> TRUE]]

RECURSIVE SumOf(_)
SumOf(lens) == IF lens = <<>> THEN 0 ELSE Head(lens) + SumOf(Tail(lens))

RECURSIVE BatchLogs(_)
\* The Shapes of the batches of the given lengths, cut from the stream of
\* points in order.
BatchLogs(lens) ==
  IF lens = <<>> THEN <<>>
  ELSE LET before == SubSeq(lens, 1, Len(lens) - 1)
           n      == lens[Len(lens)]
       IN  BatchLogs(before)
           \o LogOf(FacetsCalls([i \in 1..n |-> StreamPoint(SumOf(before) + i)]))

\* The header and the Shapes of the batches completed among the points fed.
KeptOutput == LogOf(StartCalls) \o BatchLogs(shapes)

FormatErrorRaised == err = "format"

\* C17: when a format error is raised while a facet is read, processing
\* stops: nothing more is read or written, WriteEndOfWrl does not run (no
\* Viewpoint, pending triangles not flushed), the output is the header and
\* the Shapes of the complete batches of the facets before, and wmain
\* returns failure.
C17_StopsAtFormatError ==
  /\ [](FormatErrorRaised =>
          /\ pc \in {"unwind", "return", "exited"}
          /\ wlog = KeptOutput
          /\ SumOf(shapes) + Len(m_triangles) = fed
          /\ Len(m_triangles) < maxPointsPerFaceSet
          /\ pc = "exited" => exitCode # "EXIT_SUCCESS")
  /\ [][FormatErrorRaised =>
          /\ wlog' = wlog /\ shapes' = shapes /\ m_triangles' = m_triangles
          /\ inPos' = inPos /\ fed' = fed]_vars

C17_Witness ==
  /\ FormatErrorRaised /\ pc = "exited"
  /\ shapes = <<maxPointsPerFaceSet>> /\ m_triangles # <<>>

\* C18: no stream is released more than once: over the whole run of wmain
\* (reader.Close, the destructor of the reader's File, the destructors of
\* inFile and outFile) each open stream is passed to fclose at most once.
C18_ClosedAtMostOnce == inCloses <= 1 /\ outCloses <= 1

\* Every point fed so far came as a whole facet.
WholeFacets == fed = 3 * numFacetsProcessed

\* The coordinate lines of the output, in order: the writes that follow the
\* indent of a coordinate line.
CoordinateTexts ==
  LET at == SelectSeq([i \in 1..Len(wlog) |-> i],
                      LAMBDA i : i > 1 /\ wlog[i - 1].text = CoordIndent)
  IN  [k \in 1..Len(at) |-> wlog[at[k]].text]

PointText(p) == FormatG(p.x) \o <<" ">> \o FormatG(p.y) \o <<" ">> \o FormatG(p.z)

ShapeNodes == Cardinality({i \in 1..Len(wlog) : wlog[i].text = ShapeOpen.text})

\* C19: the Shapes of the output are the consecutive chunks of 1000
\* triangles of the input: ceil(N/1000) Shapes for N triangles, none for
\* N = 0, each but the last of 1000 triangles, none empty, and the
\* coordinate lists together are the input vertices in their order.
C19_ShapesAreChunks ==
  (pc = "w_done" /\ WholeFacets) =>
    LET N == numFacetsProcessed
        S == (N + 999) \div 1000
    IN  /\ ShapeNodes = S
        /\ Len(shapes) = S
        /\ \A i \in 1..S : shapes[i] = 3 * (IF i < S THEN 1000 ELSE N - 1000 * (S - 1))
        /\ \A i \in 1..S : shapes[i] > 0
        /\ CoordinateTexts = [k \in 1..(3 * N) |-> PointText(StreamPoint(k))]

C19_Witness ==
  /\ pc = "w_done" /\ WholeFacets
  /\ numFacetsProcessed = 1001 /\ shapes = <<3000, 3>>

\* Write i of the log ends a line of the output.
EndsLine(i) == wlog[i].text[Len(wlog[i].text)] = LF

\* The first write of the line that the line end written at e closes (a
\* line of a Shape's lists is at most 7 writes).
LineStart(e) ==
  LET from == Max(1, e - 8)
      prev == {i \in from..(e - 1) : EndsLine(i)}
  IN  IF prev = {} THEN from ELSE (CHOOSE i \in prev : \A j \in prev : j <= i) + 1

RECURSIVE TextWritten(_, _)
\* What the writes i..j left in the file.
TextWritten(i, j) ==
  IF j < i THEN <<>>
  ELSE TextWritten(i, j - 1) \o (IF wlog[j].ok THEN wlog[j].text ELSE <<>>)

\* The line of the output closed at e, without its line end.
LineAt(e) == TextWritten(LineStart(e), e - 1)

\* The positions of the writes with the given text, in order.
WritesOf(text) ==
  SelectSeq([i \in 1..Len(wlog) |-> i], LAMBDA i : wlog[i].text = text)

\* The line ends written between the writes a and b.
LineEndsBetween(a, b) ==
  SelectSeq([i \in 1..(b - a - 1) |-> a + i], LAMBDA i : wlog[i].text = <<CR, LF>>)

\* Line t of a coordIndex list as the format requires it.
IndexLine(t, comma) ==
  IndexIndent \o Digits(3 * t) \o <<", ">> \o Digits(3 * t + 1) \o <<", ">>
  \o Digits(3 * t + 2) \o <<", ", "-1">> \o (IF comma THEN <<",">> ELSE <<>>)

EndsWithComma(line) == line # <<>> /\ line[Len(line)] \in {",", ", "}

\* The lists of one Shape of `points` points: cl the line ends of its
\* coordinate list, il those of its coordIndex list.
ShapeLists(points, cl, il) ==
  /\ Len(cl) = points
  /\ Len(il) * 3 = points
  /\ \A k \in 1..Len(cl) : EndsWithComma(LineAt(cl[k])) <=> k < Len(cl)
  /\ \A k \in 1..Len(il) :
       /\ LineAt(il[k]) = IndexLine(k - 1, k < Len(il))
       /\ 3 * (k - 1) + 2 < points

ShapesWellFormed(opens, mids, closes) ==
  /\ Len(opens) = Len(shapes) /\ Len(mids) = Len(shapes) /\ Len(closes) = Len(shapes)
  /\ \A s \in 1..Len(shapes) :
       ShapeLists(shapes[s], LineEndsBetween(opens[s], mids[s]),
                  LineEndsBetween(mids[s], closes[s]))

\* C20: in every Shape the coordIndex list has one line per triangle, line
\* t holds 3t, 3t+1, 3t+2 and then -1, every index is below the number of
\* points of that Shape, and every line but the last of the coordIndex list
\* and of the coordinate list ends with a comma.
C20_IndexLists ==
  (pc = "w_done" /\ WholeFacets) =>
    ShapesWellFormed(WritesOf(ShapeOpen.text), WritesOf(ShapeMiddle.text),
                     WritesOf(ShapeClose.text))

\* C21: the pending buffer is empty after every flush, the one at the
\* threshold and the one of WriteEndOfWrl: no point written in a Shape is
\* still pending, and a second WriteEndOfWrl would write no Shape.
C21_BufferEmptyAfterFlush ==
  /\ pc \in {"w_feed", "w_done"} => SumOf(shapes) + Len(m_triangles) = fed
  /\ pc = "w_done" =>
       /\ m_triangles = <<>>
       /\ EndOfWrlCalls(m_triangles, emin, emax) = EndCalls(emin, emax)

\* ConvertStlToWrl is between two calls of the writer.
BetweenWriterCalls == pc \in {"read", "feed", "bounds", "close", "end"}

IsNumericToken(t) ==
  LET body == IF t # <<>> /\ t[1] \in {"-", "+"} THEN Tail(t) ELSE t
  IN  /\ \E i \in 1..Len(body) : IsDigit(body[i])
      /\ \A i \in 1..Len(body) : IsDigit(body[i]) \/ body[i] = "."
      /\ Cardinality({i \in 1..Len(body) : body[i] = "."}) <= 1

\* The number a numeric token denotes is 0.
DenotesZero(t) == \A i \in 1..Len(t) : IsDigit(t[i]) => t[i] = "0"

\* The line is one ReadVertexFromAsciiStl is to accept: "vertex", then 3
\* numbers, none of them a 0 that does not begin with the character 0.
AcceptableVertexLine(tokens) ==
  /\ Len(tokens) >= 4
  /\ tokens[1] = kVertex
  /\ \A k \in 2..4 :
       /\ IsNumericToken(tokens[k])
       /\ DenotesZero(tokens[k]) => tokens[k][1] = "0"

\* C23: ReadVertexFromAsciiStl accepts a line if and only if its first
\* token is "vertex" and 3 numeric tokens follow; fewer than 3 coordinates,
\* a coordinate that is no number, or a 0 whose token does not begin with
\* the character 0, raise a format error.
C23_VertexLineAccepted ==
  /\ pc = "v_done" => AcceptableVertexLine(MaximalRuns(str))
  /\ pc = "v_thrown" => ~AcceptableVertexLine(MaximalRuns(str)) /\ err = "format"
  /\ pc # "hang"

\* The step is a call of ReadFacetFromStl in binary mode.
BinaryRead == pc = "read" /\ m_isBinaryStl /\ pc' # "read"

\* The vertices of record k of a generated binary file, in file order.
RecordVertices(k) == SubSeq(ExpectedPoints(k), 3 * k - 2, 3 * k)

\* C24: in binary mode 0 <= current <= total always; a successful
\* ReadFacetFromStl consumes one record of 50 bytes, adds one to current and
\* returns the 3 vertices of the record in file order; the end of the
\* sequence is returned exactly when current = total, after total triangles
\* and with the read position at the end of the file.
C24_BinaryCounters ==
  /\ [](m_isBinaryStl => m_curFacet >= 0 /\ m_curFacet <= m_numFacets)
  /\ [][BinaryRead =>
          /\ pc' = "close" <=> m_curFacet = m_numFacets
          /\ pc' = "feed" =>
               /\ inPos' = inPos + 50
               /\ m_curFacet' = m_curFacet + 1
               /\ ~InputHasNaN => coords' = RecordVertices(m_curFacet')
          /\ pc' = "close" =>
               /\ m_curFacet' = m_curFacet /\ inPos' = inPos
               /\ numFacetsProcessed = m_numFacets
               /\ inPos = Len(input.bytes)]_vars

C24_Witness ==
  /\ pc = "close" /\ m_isBinaryStl /\ ~InputHasNaN
  /\ m_numFacets = MaxFacets /\ m_curFacet = MaxFacets
  /\ inPos = Len(input.bytes)

\* The small letter of a capital of "OUTERLOOP"; other characters as they are.
SmallLetter(c) ==
  CASE c = "O" -> "o" [] c = "U" -> "u" [] c = "T" -> "t" [] c = "E" -> "e"
    [] c = "R" -> "r" [] c = "L" -> "l" [] c = "P" -> "p" [] OTHER -> c

InSmallLetters(t) == [i \in 1..Len(t) |-> SmallLetter(t[i])]

\* The tokens are those of an outer-loop line: "outerloop", or "outer" and
\* then "loop", in any letter case.
IsOuterLoopLine(tokens) ==
  \/ Len(tokens) >= 1 /\ InSmallLetters(tokens[1]) = kOuterloop
  \/ /\ Len(tokens) >= 2
     /\ InSmallLetters(tokens[1]) = kOuter /\ InSmallLetters(tokens[2]) = kLoop

\* C25: after a "facet" line the next non-blank line is accepted as the
\* outer-loop line when its tokens are "outerloop" or "outer" and "loop",
\* in either spacing and in any letter case; any other line raises a format
\* error.
C25_OuterLoopLine ==
  pc \in {"o_done", "o_false", "o_thrown", "hang"} =>
    IF IsOuterLoopLine(MaximalRuns(str))
    THEN pc = "o_done" /\ Len(coords) = 3
    ELSE pc = "o_thrown" /\ err = "format"

\* C26: whenever ConvertStlToWrl calls WriteEndOfWrl the bounding box it
\* passes is a real box: emin <= emax on every axis and neither point holds
\* its initial sentinel, also for an ASCII solid without facets.
C26_RealBoxAtEnd ==
  pc = "end" =>
    \A a \in Axes :
      /\ LessEq(Coord(emin, a), Coord(emax, a))
      /\ Coord(emin, a) # DBL_MAX
      /\ Coord(emax, a) # 0 - DBL_MAX

\* ReadHeaderFromStl raised a format error.
HeaderError == err = "format" /\ calls = <<"ReadHeaderFromStl">>

\* C27: when ReadHeaderFromStl raises a format error ConvertStlToWrl has
\* written nothing: the writer is never started and the output stays empty
\* until wmain returns.
C27_NothingWrittenOnHeaderError ==
  HeaderError =>
    /\ wlog = <<>> /\ m_triangles = <<>> /\ shapes = <<>>
    /\ pc \in {"unwind", "return", "exited"}
    /\ CallCount("WriteStartOfWrl") = 0

C27_Witness ==
  /\ HeaderError /\ pc = "exited" /\ outOpen
  /\ input.bytes # <<>> /\ input.ascii
====
